---- MODULE Spec2Model ----
(***************************************************************************)
(* Session-state and leaderboard synchronisation of the exploding-kitten   *)
(* backend (src/backend/main.go, cardgenerator in src/unnamed/part_000).   *)
(*                                                                         *)
(* The redis store is a map from key to hash record plus the sorted set    *)
(* "leaderboard".  Every HTTP handler is a goroutine that runs its store   *)
(* calls one at a time; each store call is one atomic step that either     *)
(* succeeds or fails (StoreUnavailable).                                   *)
(***************************************************************************)
EXTENDS Integers, Sequences, FiniteSets, TLC

\* Bounds of the model.
NumProcs == 2      \* request goroutines that can be in flight together
MaxSeeds == 2      \* sampled outcomes of the random source of the deck
NumConns == 2      \* realtime connections that can be open together
MaxFrames == 3     \* frames received over all connections

\* Program constants.
DeckLen == 5

Procs == 1..NumProcs
Conns == 1..NumConns

\* User names in byte order (redis orders equal scores by member).
NameOrder == <<"", "alice", "bob">>
Names == {NameOrder[i] : i \in 1..Len(NameOrder)}
NameRank(n) == CHOOSE i \in 1..Len(NameOrder) : NameOrder[i] = n

-----------------------------------------------------------------------------
(* Strings that the code parses are sequences of characters.               *)

Digits == <<"0", "1", "2", "3", "4", "5", "6", "7", "8", "9">>
IsDigit(c) == \E i \in 1..10 : Digits[i] = c
DigitVal(c) == (CHOOSE i \in 1..10 : Digits[i] = c) - 1

RECURSIVE DigitsVal(_)
DigitsVal(s) ==
    IF s = <<>> THEN 0
    ELSE DigitsVal(SubSeq(s, 1, Len(s) - 1)) * 10 + DigitVal(s[Len(s)])

\* strconv.Atoi: optional sign, then one or more digits; anything else is a
\* syntax error with value 0.
Atoi(s) ==
    LET signed == Len(s) > 0 /\ s[1] \in {"+", "-"}
        body   == IF signed THEN Tail(s) ELSE s
        wellFormed == body # <<>> /\ \A i \in 1..Len(body) : IsDigit(body[i])
    IN  IF wellFormed
        THEN [val |-> IF s[1] = "-" THEN 0 - DigitsVal(body) ELSE DigitsVal(body),
              err |-> FALSE]
        ELSE [val |-> 0, err |-> TRUE]

RECURSIVE NatDigits(_)
NatDigits(n) ==
    IF n < 10 THEN <<Digits[n + 1]>>
    ELSE NatDigits(n \div 10) \o <<Digits[(n % 10) + 1]>>

\* The redis client writes an int argument in decimal.
IntArg(n) == IF n < 0 THEN <<"-">> \o NatDigits(0 - n) ELSE NatDigits(n)

\* The redis client writes a bool argument as the integer 1 or 0.
BoolArg(b) == IF b THEN "1" ELSE "0"

\* strconv.ParseBool: the value (false on a syntax error).
ParseBool(s) == s \in {"1", "t", "T", "TRUE", "true", "True"}

-----------------------------------------------------------------------------
(* JSON.  A JSON array text is the sequence of its elements; an element is *)
(* a string or an object with the members name and type.  The empty        *)
(* string is no JSON text.                                                 *)

JStr(s) == [k |-> "str", name |-> s, type |-> ""]
JObj(n, t) == [k |-> "obj", name |-> n, type |-> t]

NoText == [json |-> FALSE, elems |-> <<>>]
EmptyArrayText == [json |-> TRUE, elems |-> <<>>]

\* json.Marshal of a []string.
MarshalStrings(deck) ==
    [json |-> TRUE, elems |-> [i \in 1..Len(deck) |-> JStr(deck[i])]]

\* json.Marshal of the []interface{} decoded from the request body.
MarshalValues(values) == [json |-> TRUE, elems |-> values]

ZeroCard == [name |-> "", type |-> ""]

\* json.Unmarshal into []Card, its error ignored: an object fills a Card, any
\* other element leaves the zero Card in its place; no text leaves nil.
UnmarshalCards(text) ==
    IF ~text.json THEN <<>>
    ELSE [i \in 1..Len(text.elems) |->
            IF text.elems[i].k = "obj"
            THEN [name |-> text.elems[i].name, type |-> text.elems[i].type]
            ELSE ZeroCard]

-----------------------------------------------------------------------------
(* The card generator.                                                     *)

Characters == <<"Cat card", "Defuse card", "Shuffle card ", "Exploding kitten card">>

\* Deck number k of the sampled outcomes: every draw is an index into
\* Characters; sample k starts at entry k and walks the catalog.
SampleDeck(k) ==
    [i \in 1..DeckLen |-> Characters[((k + i - 2) % Len(Characters)) + 1]]

GenerateRandomCards == {SampleDeck(k) : k \in 1..MaxSeeds}

-----------------------------------------------------------------------------
(* The store.                                                              *)

\* HGetAll of a missing key is the empty map: every lookup gives "".
NoHash == [exists |-> FALSE, score |-> <<>>, gameCards |-> NoText,
           hasDefuseCard |-> "", activeCard |-> ""]

HashOf(score, gameCards, hasDefuseCard, activeCard) ==
    [exists |-> TRUE, score |-> score, gameCards |-> gameCards,
     hasDefuseCard |-> hasDefuseCard, activeCard |-> activeCard]

NoMember == [in |-> FALSE, score |-> 0]
Member(score) == [in |-> TRUE, score |-> score]

\* ZADD and ZREM on the sorted set.
ZAdd(z, member, score) == [z EXCEPT ![member] = Member(score)]

\* Faulty variant of ZRem: the member is left in the set.
ZRemKeeps(z, member) == z

ZRem(z, member) == [z EXCEPT ![member] = NoMember]

\* Faulty variant of RevBefore: the order of ZRANGE, lowest score first.
AscBefore(z, a, b) ==
    \/ z[a].score < z[b].score
    \/ z[a].score = z[b].score /\ NameRank(a) < NameRank(b)

\* a comes before b in ZREVRANGE: higher score first, equal scores in
\* reverse byte order of the member.
RevBefore(z, a, b) ==
    \/ z[a].score > z[b].score
    \/ z[a].score = z[b].score /\ NameRank(a) > NameRank(b)

RECURSIVE RevRange(_, _)
RevRange(z, S) ==
    IF S = {} THEN <<>>
    ELSE LET top == CHOOSE a \in S : \A b \in S \ {a} : RevBefore(z, a, b)
         IN  <<[Member |-> top, Score |-> z[top].score]>> \o RevRange(z, S \ {top})

ZRevRangeWithScores(z) == RevRange(z, {n \in Names : z[n].in})

\* getLatestLeaderboard on a successful read (scores in the model are far
\* inside the range where float64 holds an int exactly).
getLatestLeaderboard(z) ==
    LET leaderboard == ZRevRangeWithScores(z)
    IN  [i \in 1..Len(leaderboard) |->
            [userName |-> leaderboard[i].Member, userScore |-> leaderboard[i].Score]]

-----------------------------------------------------------------------------
VARIABLES
    hash,       \* redis: key -> hash record (NoHash when the key is missing)
    lb,         \* redis: the sorted set "leaderboard", member -> score
    pc,         \* per request goroutine: where it is in its handler
    req,        \* per request goroutine: the request it serves
    loc,        \* per request goroutine: handler locals
    resp,       \* per request goroutine: what it has written to the client
    last,       \* history: per user name, the last request that wrote its record
    saw         \* history: per request goroutine, last[userName] when it began

httpVars == <<hash, lb, pc, req, loc, resp, last, saw>>

VARIABLES
    leaderboardMap, \* the in-memory tally, user name -> count (0 when missing)
    mu,             \* the mutex: 0 when free, else the connection that holds it
    wpc,            \* per connection goroutine: where it is in websocketHandler
    wloc,           \* per connection goroutine: its locals
    wout,           \* per connection: the messages written to the client
    frames          \* history: per connection and name, the frames received

wsVars == <<leaderboardMap, mu, wpc, wloc, wout, frames>>

vars == <<httpVars, wsVars>>

NoCard == [present |-> FALSE, name |-> "", type |-> ""]
ZeroGameData == [Score |-> 0, GameCards |-> <<>>, HasDefuseCard |-> FALSE,
                 ActiveCard |-> NoCard]

NoReq == [op |-> "none", decodes |-> TRUE, userName |-> "", has |-> {},
          score |-> <<>>, gameCards |-> <<>>, hasDefuseCard |-> FALSE,
          activeCard |-> ""]
\* failed and wrote are history: a store call of this request has failed; this
\* request has written the hash record of its user.
NoLoc == [score |-> 0, gameData |-> ZeroGameData, failed |-> FALSE, wrote |-> FALSE]
NoResp == [status |-> 0, gameData |-> ZeroGameData, leaderboard |-> <<>>]

\* done: the writing request was answered 200; ok: and none of its store
\* calls failed; hash, member: the user's record and leaderboard entry when it
\* was answered.
NoLast == [op |-> "none", by |-> 0, done |-> FALSE, ok |-> FALSE, req |-> NoReq,
           hash |-> NoHash, member |-> NoMember]

InitHttp ==
    /\ hash = [n \in Names |-> NoHash]
    /\ lb = [n \in Names |-> NoMember]
    /\ pc = [p \in Procs |-> "idle"]
    /\ req = [p \in Procs |-> NoReq]
    /\ loc = [p \in Procs |-> NoLoc]
    /\ resp = [p \in Procs |-> NoResp]
    /\ last = [n \in Names |-> NoLast]
    /\ saw = [p \in Procs |-> NoLast]

\* A request is handed to goroutine p.
Begin(p, request) ==
    /\ pc[p] = "idle"
    /\ req' = [req EXCEPT ![p] = request]
    /\ saw' = [saw EXCEPT ![p] = last[request.userName]]

\* http.Error(w, ..., status): the handler answers and returns.
Fail(p, status) ==
    /\ resp' = [resp EXCEPT ![p] = [NoResp EXCEPT !.status = status]]
    /\ pc' = [pc EXCEPT ![p] = "done"]

\* A store call of p has failed.
NoteFailed(p) == loc' = [loc EXCEPT ![p].failed = TRUE]

\* History: p has written the hash record of its user.
NoteWrite(p) ==
    /\ last' = [last EXCEPT ![req[p].userName] =
                  [NoLast EXCEPT !.op = req[p].op, !.by = p, !.req = req[p]]]
    /\ loc' = [loc EXCEPT ![p].wrote = TRUE]

\* History: p is answered 200.
NoteAnswered(p) ==
    LET n == req[p].userName
    IN  last' = IF loc[p].wrote /\ last[n].by = p /\ ~last[n].done
                THEN [last EXCEPT ![n] = [@ EXCEPT !.done = TRUE,
                                                   !.ok = ~loc[p].failed,
                                                   !.hash = hash[n],
                                                   !.member = lb[n]]]
                ELSE last

-----------------------------------------------------------------------------
(* GET /game: gameHandler.                                                 *)

GetRequest(p, userName) ==
    /\ Begin(p, [NoReq EXCEPT !.op = "get", !.userName = userName])
    /\ pc' = [pc EXCEPT ![p] = "g_exists"]
    /\ UNCHANGED <<hash, lb, loc, resp, last, wsVars>>

\* Faulty variant of NeedsInit: the existence check is left out.
NeedsInitAlways(isMember, userName) == userName # ""

\* The condition of line 152.
NeedsInit(isMember, userName) == ~isMember /\ userName # ""

GetExists(p) ==
    /\ pc[p] = "g_exists"
    /\ \/ /\ pc' = [pc EXCEPT ![p] =
                      IF NeedsInit(hash[req[p].userName].exists, req[p].userName)
                      THEN "g_hmset" ELSE "g_hgetall"]
          /\ UNCHANGED <<resp, loc>>
       \/ /\ Fail(p, 500)
          /\ NoteFailed(p)
    /\ UNCHANGED <<hash, lb, req, last, saw, wsVars>>

\* The record written for a new user.
InitialHash(randomCards) ==
    HashOf(IntArg(0), MarshalStrings(randomCards), BoolArg(FALSE), "")

GetInitHMSet(p) ==
    /\ pc[p] = "g_hmset"
    /\ \/ /\ \E randomCards \in GenerateRandomCards :
                hash' = [hash EXCEPT ![req[p].userName] = InitialHash(randomCards)]
          /\ NoteWrite(p)
          /\ pc' = [pc EXCEPT ![p] = "g_zadd"]
          /\ UNCHANGED resp
       \/ /\ Fail(p, 500)
          /\ NoteFailed(p)
          /\ UNCHANGED <<hash, last>>
    /\ UNCHANGED <<lb, req, saw, wsVars>>

\* The result of ZAdd is dropped: the handler goes on whether it failed or not.
GetInitZAdd(p) ==
    /\ pc[p] = "g_zadd"
    /\ \/ /\ lb' = ZAdd(lb, req[p].userName, 0)
          /\ UNCHANGED loc
       \/ /\ NoteFailed(p)
          /\ UNCHANGED lb
    /\ pc' = [pc EXCEPT ![p] = "g_hgetall"]
    /\ UNCHANGED <<hash, req, resp, last, saw, wsVars>>

\* Lines 179-184: the stored fields decoded, every decode error dropped.
DecodeGameData(gameDataMap) ==
    [Score |-> Atoi(gameDataMap.score).val,
     GameCards |-> UnmarshalCards(gameDataMap.gameCards),
     HasDefuseCard |-> ParseBool(gameDataMap.hasDefuseCard),
     ActiveCard |-> IF gameDataMap.activeCard # ""
                    THEN [present |-> TRUE, name |-> gameDataMap.activeCard, type |-> ""]
                    ELSE NoCard]

GetHGetAll(p) ==
    /\ pc[p] = "g_hgetall"
    /\ \/ /\ loc' = [loc EXCEPT ![p].gameData = DecodeGameData(hash[req[p].userName])]
          /\ pc' = [pc EXCEPT ![p] = "g_lb"]
          /\ UNCHANGED resp
       \/ /\ Fail(p, 500)
          /\ NoteFailed(p)
    /\ UNCHANGED <<hash, lb, req, last, saw, wsVars>>

GetLeaderboard(p) ==
    /\ pc[p] = "g_lb"
    /\ \/ /\ resp' = [resp EXCEPT ![p] = [status |-> 200,
                                          gameData |-> loc[p].gameData,
                                          leaderboard |-> getLatestLeaderboard(lb)]]
          /\ pc' = [pc EXCEPT ![p] = "done"]
          /\ NoteAnswered(p)
          /\ UNCHANGED loc
       \/ /\ Fail(p, 500)
          /\ NoteFailed(p)
          /\ UNCHANGED last
    /\ UNCHANGED <<hash, lb, req, saw, wsVars>>

-----------------------------------------------------------------------------
(* PUT /game: updateGameData.                                              *)

\* Request bodies of the clients.  A body that is not JSON does not decode;
\* a decoded body supplies the members named in has.
CatCard == JObj("Cat", "cat")
DefuseCard == JObj("Defuse", "defuse")
AllMembers == {"score", "gameCards", "hasDefuseCard", "activeCard"}

FullPayloads ==
    { [has |-> AllMembers, score |-> <<"2">>, gameCards |-> <<CatCard, DefuseCard>>,
       hasDefuseCard |-> TRUE, activeCard |-> "Cat"],
      [has |-> AllMembers, score |-> <<"-", "1">>, gameCards |-> <<DefuseCard, CatCard>>,
       hasDefuseCard |-> FALSE, activeCard |-> ""] }

\* A score that is no number, a body without score and gameCards, and a body
\* with score and gameCards only: the comma-ok assertions of lines 218 and 219
\* give false and "" for a member that is missing.
OddPayloads ==
    { [has |-> AllMembers, score |-> <<"x">>, gameCards |-> <<>>,
       hasDefuseCard |-> TRUE, activeCard |-> ""],
      [has |-> {"hasDefuseCard"}, score |-> <<>>, gameCards |-> <<>>,
       hasDefuseCard |-> TRUE, activeCard |-> ""],
      [has |-> {"score", "gameCards"}, score |-> <<"2">>, gameCards |-> <<CatCard>>,
       hasDefuseCard |-> FALSE, activeCard |-> ""] }

Undecodable(op) == [NoReq EXCEPT !.op = op, !.decodes = FALSE]

PutBodies(names, payloads) ==
    { [op |-> "put", decodes |-> TRUE, userName |-> n, has |-> b.has,
       score |-> b.score, gameCards |-> b.gameCards,
       hasDefuseCard |-> b.hasDefuseCard, activeCard |-> b.activeCard] :
      n \in names, b \in payloads }

\* Lines 220 and 222 assert the type of a member without the comma-ok form:
\* a missing member panics, the server drops the request without an answer.
PutPanics(body) == ~({"score", "gameCards"} \subseteq body.has)

PutRequest(p, body) ==
    /\ Begin(p, body)
    /\ IF ~body.decodes
       THEN /\ Fail(p, 400)
            /\ UNCHANGED loc
       ELSE IF PutPanics(body)
       THEN /\ pc' = [pc EXCEPT ![p] = "done"]
            /\ UNCHANGED <<loc, resp>>
       ELSE /\ loc' = [loc EXCEPT ![p].score = Atoi(body.score).val]
            /\ pc' = [pc EXCEPT ![p] = "u_hmset"]
            /\ UNCHANGED resp
    /\ UNCHANGED <<hash, lb, last, wsVars>>

\* Faulty variant of UpdatedHash: the score pair is written as 0.
UpdatedHashDropsScore(body, score) ==
    HashOf(IntArg(0), MarshalValues(body.gameCards),
           BoolArg(body.hasDefuseCard), body.activeCard)

\* The record written by an update.
UpdatedHash(body, score) ==
    HashOf(IntArg(score), MarshalValues(body.gameCards),
           BoolArg(body.hasDefuseCard), body.activeCard)

\* Faulty variant of PutHMSet: the fields are written by separate commands,
\* and the handler is cut off after the first two.
PutHMSetPiecewise(p) ==
    /\ pc[p] = "u_hmset"
    /\ hash' = [hash EXCEPT ![req[p].userName] =
                  [@ EXCEPT !.exists = TRUE,
                            !.score = IntArg(loc[p].score),
                            !.gameCards = MarshalValues(req[p].gameCards)]]
    /\ NoteWrite(p)
    /\ pc' = [pc EXCEPT ![p] = "u_zadd"]
    /\ UNCHANGED <<lb, req, resp, saw, wsVars>>

\* Faulty variant of PutHMSet: the error of HMSet is dropped like the one
\* of ZAdd, and the handler goes on to the leaderboard.
PutHMSetGoesOn(p) ==
    /\ pc[p] = "u_hmset"
    /\ \/ /\ hash' = [hash EXCEPT ![req[p].userName] = UpdatedHash(req[p], loc[p].score)]
          /\ NoteWrite(p)
       \/ /\ NoteFailed(p)
          /\ UNCHANGED <<hash, last>>
    /\ pc' = [pc EXCEPT ![p] = "u_zadd"]
    /\ UNCHANGED <<lb, req, resp, saw, wsVars>>

PutHMSet(p) ==
    /\ pc[p] = "u_hmset"
    /\ \/ /\ hash' = [hash EXCEPT ![req[p].userName] = UpdatedHash(req[p], loc[p].score)]
          /\ NoteWrite(p)
          /\ pc' = [pc EXCEPT ![p] = "u_zadd"]
          /\ UNCHANGED resp
       \/ /\ Fail(p, 500)
          /\ NoteFailed(p)
          /\ UNCHANGED <<hash, last>>
    /\ UNCHANGED <<lb, req, saw, wsVars>>

PutZAdd(p) ==
    /\ pc[p] = "u_zadd"
    /\ \/ /\ lb' = ZAdd(lb, req[p].userName, loc[p].score)
          /\ UNCHANGED loc
       \/ /\ NoteFailed(p)
          /\ UNCHANGED lb
    /\ pc' = [pc EXCEPT ![p] = "u_lb"]
    /\ UNCHANGED <<hash, req, resp, last, saw, wsVars>>

PutLeaderboard(p) ==
    /\ pc[p] = "u_lb"
    /\ \/ /\ resp' = [resp EXCEPT ![p] = [NoResp EXCEPT !.status = 200,
                                          !.leaderboard = getLatestLeaderboard(lb)]]
          /\ pc' = [pc EXCEPT ![p] = "done"]
          /\ NoteAnswered(p)
          /\ UNCHANGED loc
       \/ /\ Fail(p, 500)
          /\ NoteFailed(p)
          /\ UNCHANGED last
    /\ UNCHANGED <<hash, lb, req, saw, wsVars>>

-----------------------------------------------------------------------------
(* DELETE /game: resetGame.                                                *)

ResetBodies(names) ==
    {[NoReq EXCEPT !.op = "reset", !.userName = n] : n \in names}

\* Faulty variant of MissingUserName: the check is left out.
MissingUserNameUnchecked(userName) == FALSE

\* The check of line 283.
MissingUserName(userName) == userName = ""

ResetRequest(p, body) ==
    /\ Begin(p, body)
    /\ IF ~body.decodes \/ MissingUserName(body.userName)
       THEN Fail(p, 400)
       ELSE /\ pc' = [pc EXCEPT ![p] = "r_hmset"]
            /\ UNCHANGED resp
    /\ UNCHANGED <<hash, lb, loc, last, wsVars>>

\* The record written by a reset.
ClearedHash == HashOf(IntArg(0), EmptyArrayText, "false", "")

ResetHMSet(p) ==
    /\ pc[p] = "r_hmset"
    /\ \/ /\ hash' = [hash EXCEPT ![req[p].userName] = ClearedHash]
          /\ NoteWrite(p)
          /\ pc' = [pc EXCEPT ![p] = "r_zrem"]
          /\ UNCHANGED resp
       \/ /\ Fail(p, 500)
          /\ NoteFailed(p)
          /\ UNCHANGED <<hash, last>>
    /\ UNCHANGED <<lb, req, saw, wsVars>>

\* The result of ZRem is dropped too.
ResetZRem(p) ==
    /\ pc[p] = "r_zrem"
    /\ \/ /\ lb' = ZRem(lb, req[p].userName)
          /\ UNCHANGED loc
       \/ /\ NoteFailed(p)
          /\ UNCHANGED lb
    /\ pc' = [pc EXCEPT ![p] = "r_lb"]
    /\ UNCHANGED <<hash, req, resp, last, saw, wsVars>>

\* On success the leaderboard is written to the response and the handler goes
\* on to the send on broadcastLeaderboard (line 323).  The channel is
\* unbuffered and no goroutine of the program receives from it: a goroutine
\* at "r_send" has no step.
ResetLeaderboard(p) ==
    /\ pc[p] = "r_lb"
    /\ \/ /\ resp' = [resp EXCEPT ![p] = [NoResp EXCEPT !.status = 200,
                                          !.leaderboard = getLatestLeaderboard(lb)]]
          /\ pc' = [pc EXCEPT ![p] = "r_send"]
          /\ NoteAnswered(p)
          /\ UNCHANGED loc
       \/ /\ Fail(p, 500)
          /\ NoteFailed(p)
          /\ UNCHANGED last
    /\ UNCHANGED <<hash, lb, req, saw, wsVars>>

-----------------------------------------------------------------------------
\* The handler has returned; the goroutine ends and its slot is free again.
Return(p) ==
    /\ pc[p] = "done"
    /\ pc' = [pc EXCEPT ![p] = "idle"]
    /\ req' = [req EXCEPT ![p] = NoReq]
    /\ loc' = [loc EXCEPT ![p] = NoLoc]
    /\ resp' = [resp EXCEPT ![p] = NoResp]
    /\ saw' = [saw EXCEPT ![p] = NoLast]
    /\ UNCHANGED <<hash, lb, last, wsVars>>

\* Bookkeeping, no step of the code: a goroutine parked at the send of line 323
\* never runs again, and the server serves the next request on a fresh
\* goroutine.  The model stops tracking the parked one and lets the index p
\* name the fresh one.
Abandon(p) ==
    /\ pc[p] = "r_send"
    /\ pc' = [pc EXCEPT ![p] = "idle"]
    /\ req' = [req EXCEPT ![p] = NoReq]
    /\ loc' = [loc EXCEPT ![p] = NoLoc]
    /\ resp' = [resp EXCEPT ![p] = NoResp]
    /\ saw' = [saw EXCEPT ![p] = NoLast]
    /\ UNCHANGED <<hash, lb, last, wsVars>>

-----------------------------------------------------------------------------
(* The realtime endpoint: websocketHandler, one goroutine per connection.  *)
(* main registers it on the default mux while the server is given the      *)
(* router; the handler is modelled as the function it is, run for every    *)
(* connection handed to it.                                                *)

\* The names the realtime clients send.
FrameNames == {"alice", "bob"}

NoWloc == [message |-> "", count |-> 0, leaderboard |-> <<>>]
\* outcome is history: how the processing of the latest frame ended.
NoWout == [written |-> 0, leaderboard |-> <<>>, outcome |-> "none"]

InitWs ==
    /\ leaderboardMap = [n \in Names |-> 0]
    /\ mu = 0
    /\ wpc = [c \in Conns |-> "closed"]
    /\ wloc = [c \in Conns |-> NoWloc]
    /\ wout = [c \in Conns |-> NoWout]
    /\ frames = [c \in Conns |-> [n \in Names |-> 0]]

RECURSIVE Sum(_, _)
Sum(f, S) == IF S = {} THEN 0
             ELSE LET x == CHOOSE y \in S : TRUE IN f[x] + Sum(f, S \ {x})

\* History: the frames carrying name n received on all connections.
Received(n) == Sum([c \in Conns |-> frames[c][n]], Conns)
AllReceived == Sum([n \in Names |-> Received(n)], Names)

\* upgrader.Upgrade: on an error the handler returns at once.
WsUpgrade(c) ==
    /\ wpc[c] = "closed"
    /\ \/ /\ wpc' = [wpc EXCEPT ![c] = "read"]
          /\ wout' = [wout EXCEPT ![c] = NoWout]
       \/ UNCHANGED <<wpc, wout>>
    /\ UNCHANGED <<leaderboardMap, mu, wloc, frames, httpVars>>

\* Faulty variant of WsReadMessage: an error on one connection closes every
\* connection that is waiting for a frame.
WsReadMessageClosesAll(c) ==
    /\ wpc[c] = "read"
    /\ \/ /\ AllReceived < MaxFrames
          /\ \E message \in FrameNames :
                /\ wloc' = [wloc EXCEPT ![c] = [NoWloc EXCEPT !.message = message]]
                /\ frames' = [frames EXCEPT ![c][message] = @ + 1]
          /\ wpc' = [wpc EXCEPT ![c] = "lock"]
       \/ /\ wpc' = [d \in Conns |-> IF wpc[d] = "read" THEN "closed" ELSE wpc[d]]
          /\ wloc' = [wloc EXCEPT ![c] = NoWloc]
          /\ UNCHANGED frames
    /\ UNCHANGED <<leaderboardMap, mu, wout, httpVars>>

\* conn.ReadMessage: a frame, or an error that ends the loop and closes.
WsReadMessage(c) ==
    /\ wpc[c] = "read"
    /\ \/ /\ AllReceived < MaxFrames
          /\ \E message \in FrameNames :
                /\ wloc' = [wloc EXCEPT ![c] = [NoWloc EXCEPT !.message = message]]
                /\ frames' = [frames EXCEPT ![c][message] = @ + 1]
          /\ wpc' = [wpc EXCEPT ![c] = "lock"]
       \/ /\ wpc' = [wpc EXCEPT ![c] = "closed"]
          /\ wloc' = [wloc EXCEPT ![c] = NoWloc]
          /\ UNCHANGED frames
    /\ UNCHANGED <<leaderboardMap, mu, wout, httpVars>>

\* Faulty variant of MutexFree: the increment runs without the lock.
MutexIgnored == TRUE

\* mu.Lock() returns when no goroutine holds the mutex.
MutexFree == mu = 0

WsLock(c) ==
    /\ wpc[c] = "lock"
    /\ MutexFree
    /\ mu' = c
    /\ wpc' = [wpc EXCEPT ![c] = "load"]
    /\ UNCHANGED <<leaderboardMap, wloc, wout, frames, httpVars>>

\* leaderboardMap[userName]++ reads the entry and then writes it.
WsLoad(c) ==
    /\ wpc[c] = "load"
    /\ wloc' = [wloc EXCEPT ![c].count = leaderboardMap[wloc[c].message]]
    /\ wpc' = [wpc EXCEPT ![c] = "store"]
    /\ UNCHANGED <<leaderboardMap, mu, wout, frames, httpVars>>

\* Faulty variant of WsStore: the tally is written to the leaderboard of the
\* store as well.
WsStoreUpserts(c) ==
    /\ wpc[c] = "store"
    /\ leaderboardMap' = [leaderboardMap EXCEPT ![wloc[c].message] = wloc[c].count + 1]
    /\ lb' = ZAdd(lb, wloc[c].message, wloc[c].count + 1)
    /\ wpc' = [wpc EXCEPT ![c] = "unlock"]
    /\ UNCHANGED <<mu, wloc, wout, frames, hash, pc, req, loc, resp, last, saw>>

WsStore(c) ==
    /\ wpc[c] = "store"
    /\ leaderboardMap' = [leaderboardMap EXCEPT ![wloc[c].message] = wloc[c].count + 1]
    /\ wpc' = [wpc EXCEPT ![c] = "unlock"]
    /\ UNCHANGED <<mu, wloc, wout, frames, httpVars>>

\* Faulty variant of WsUnlock: the function returns with the mutex held.
WsUnlockKeeps(c) ==
    /\ wpc[c] = "unlock"
    /\ wpc' = [wpc EXCEPT ![c] = "lb"]
    /\ UNCHANGED <<leaderboardMap, mu, wloc, wout, frames, httpVars>>

\* The deferred mu.Unlock().
WsUnlock(c) ==
    /\ wpc[c] = "unlock"
    /\ mu' = 0
    /\ wpc' = [wpc EXCEPT ![c] = "lb"]
    /\ UNCHANGED <<leaderboardMap, wloc, wout, frames, httpVars>>

\* Faulty variant of WsLeaderboard: a failed read ends the loop and closes.
WsLeaderboardCloses(c) ==
    /\ wpc[c] = "lb"
    /\ \/ /\ wloc' = [wloc EXCEPT ![c].leaderboard = getLatestLeaderboard(lb)]
          /\ wpc' = [wpc EXCEPT ![c] = "emit"]
          /\ UNCHANGED wout
       \/ /\ wloc' = [wloc EXCEPT ![c] = NoWloc]
          /\ wpc' = [wpc EXCEPT ![c] = "closed"]
          /\ wout' = [wout EXCEPT ![c].outcome = "readfailed"]
    /\ UNCHANGED <<leaderboardMap, mu, frames, httpVars>>

\* getLatestLeaderboard; on an error the loop continues with the next read.
WsLeaderboard(c) ==
    /\ wpc[c] = "lb"
    /\ \/ /\ wloc' = [wloc EXCEPT ![c].leaderboard = getLatestLeaderboard(lb)]
          /\ wpc' = [wpc EXCEPT ![c] = "emit"]
          /\ UNCHANGED wout
       \/ /\ wloc' = [wloc EXCEPT ![c] = NoWloc]
          /\ wpc' = [wpc EXCEPT ![c] = "read"]
          /\ wout' = [wout EXCEPT ![c].outcome = "readfailed"]
    /\ UNCHANGED <<leaderboardMap, mu, frames, httpVars>>

\* emitLeaderboard: the snapshot is serialized and written, or one of the
\* two fails and is logged; either way the function returns and the loop
\* reads again.
WsEmit(c) ==
    /\ wpc[c] = "emit"
    /\ \/ wout' = [wout EXCEPT ![c] = [written |-> @.written + 1,
                                       leaderboard |-> wloc[c].leaderboard,
                                       outcome |-> "written"]]
       \/ wout' = [wout EXCEPT ![c].outcome = "writefailed"]
    /\ wloc' = [wloc EXCEPT ![c] = NoWloc]
    /\ wpc' = [wpc EXCEPT ![c] = "read"]
    /\ UNCHANGED <<leaderboardMap, mu, frames, httpVars>>

\* The processing of a frame that has been read.
WsProcess(c) ==
    \/ WsLock(c)
    \/ WsLoad(c)
    \/ WsStore(c)
    \/ WsUnlock(c)
    \/ WsLeaderboard(c)
    \/ WsEmit(c)

WsNext ==
    \E c \in Conns :
        \/ WsUpgrade(c)
        \/ WsReadMessage(c)
        \/ WsLock(c)
        \/ WsLoad(c)
        \/ WsStore(c)
        \/ WsUnlock(c)
        \/ WsLeaderboard(c)
        \/ WsEmit(c)

-----------------------------------------------------------------------------
\* Goroutines are interchangeable: a new request takes the first free slot.
FirstFree(p) == \A q \in Procs : q < p => pc[q] # "idle"

\* No other request is being served.
Alone(p) == \A q \in Procs \ {p} : pc[q] = "idle"

\* The names the clients of a specification use.
TwoNames == {"", "alice"}

\* The steps of the handlers once a request is accepted.
GetStep(p) ==
    \/ GetExists(p)
    \/ GetInitHMSet(p)
    \/ GetInitZAdd(p)
    \/ GetHGetAll(p)
    \/ GetLeaderboard(p)

PutStep(p) ==
    \/ PutHMSet(p)
    \/ PutZAdd(p)
    \/ PutLeaderboard(p)

ResetStep(p) ==
    \/ ResetHMSet(p)
    \/ ResetZRem(p)
    \/ ResetLeaderboard(p)

HandlerStep(p) == GetStep(p) \/ PutStep(p) \/ ResetStep(p) \/ Return(p)

\* A request of a client arrives; requests are served one at a time.
Arrive(p, names) ==
    /\ FirstFree(p)
    /\ Alone(p)
    /\ \/ \E userName \in names : GetRequest(p, userName)
       \/ \E body \in PutBodies(names, FullPayloads \cup OddPayloads) \cup {Undecodable("put")} :
             PutRequest(p, body)
       \/ \E body \in ResetBodies(names) \cup {Undecodable("reset")} :
             ResetRequest(p, body)

Next == \E p \in Procs : Arrive(p, TwoNames) \/ HandlerStep(p) \/ Abandon(p)

\* Upserts and removals only, on every name.
BoardNext ==
    \E p \in Procs :
        \/ /\ FirstFree(p)
           /\ Alone(p)
           /\ \/ \E body \in PutBodies(Names, FullPayloads) : PutRequest(p, body)
              \/ \E body \in ResetBodies(Names) : ResetRequest(p, body)
        \/ PutStep(p)
        \/ ResetStep(p)
        \/ Return(p)
        \/ Abandon(p)

\* The handlers with no parked goroutine forgotten.
TrackedNext == \E p \in Procs : Arrive(p, TwoNames) \/ HandlerStep(p)

\* The server runs every request on a goroutine of its own: requests for
\* one user, served concurrently.
OneName == {"alice"}

\* Concurrent reads of one user.
SeedNext ==
    \E p \in Procs :
        \/ /\ FirstFree(p)
           /\ \E userName \in OneName : GetRequest(p, userName)
        \/ GetStep(p)
        \/ Return(p)

\* Concurrent updates and resets of one user, one call per goroutine.
ConcNext ==
    \E p \in Procs :
        \/ /\ FirstFree(p)
           /\ \/ \E body \in PutBodies(OneName, FullPayloads) : PutRequest(p, body)
              \/ \E body \in ResetBodies(OneName) : ResetRequest(p, body)
        \/ PutStep(p)
        \/ ResetStep(p)

\* The realtime connections while an update of one user is served.
LiveNext ==
    \/ WsNext
    \/ \E p \in Procs :
          \/ /\ FirstFree(p)
             /\ Alone(p)
             /\ \E body \in PutBodies(OneName, FullPayloads) : PutRequest(p, body)
          \/ PutStep(p)

Init == InitHttp /\ InitWs

\* The HTTP handlers, requests served one at a time.
Spec == Init /\ [][Next]_vars

\* The leaderboard under upserts and removals of three users.
BoardSpec == Init /\ [][BoardNext]_vars

\* The realtime connections, interleaved.
WsSpec == Init /\ [][WsNext]_vars

\* The scheduler runs every goroutine that can take a step, and every store
\* call returns (with a result or an error).
FairSpec == Init /\ [][TrackedNext]_vars /\ \A p \in Procs : WF_vars(HandlerStep(p))

\* The scheduler runs every connection goroutine that can take a step, every
\* store call and write returns, and sync.Mutex hands the lock to a goroutine
\* that has waited for it (its starvation mode).
FairWsSpec == Init /\ [][WsNext]_vars /\ \A c \in Conns : SF_vars(WsProcess(c))

\* The realtime connections and an update, interleaved.
LiveSpec == Init /\ [][LiveNext]_vars

\* GET requests for one user, interleaved.
SeedSpec == Init /\ [][SeedNext]_vars

\* PUT and DELETE requests for one user, interleaved.
ConcSpec == Init /\ [][ConcNext]_vars
-----------------------------------------------------------------------------
(* Properties.                                                             *)

Quiescent == \A p \in Procs : pc[p] = "idle"
Answered(p) == pc[p] \in {"done", "r_send"}
GetAnswered(p) == pc[p] = "done" /\ req[p].op = "get" /\ resp[p].status = 200

\* The entry of user n is in the snapshot s, and with which score.
InSnapshot(s, n) == \E i \in 1..Len(s) : s[i].userName = n
HasEntry(s, n, score) ==
    \E i \in 1..Len(s) : s[i] = [userName |-> n, userScore |-> score]

\* The cards a client means by the JSON objects it sends.
CardsOf(values) ==
    [i \in 1..Len(values) |-> [name |-> values[i].name, type |-> values[i].type]]

\* A user is initialized and not yet reset when the last write of its record
\* was an initialization or an update.
Live(n) == last[n].op \in {"get", "put"}

\* C1: at every observation point the leaderboard holds exactly the users that
\* are initialized and not yet reset, each with the score of its stored
\* record.  Stated for the states in which no request is in flight, where it
\* fails as well.
LeaderboardMatchesState ==
    Quiescent =>
        \A n \in Names :
            /\ lb[n].in <=> Live(n)
            /\ lb[n].in => lb[n].score = Atoi(hash[n].score).val

\* C2: a read that follows a successful update of the same user, with no other
\* write of that user in between, returns the score, the cards in their order
\* and the flag of the update, and its leaderboard holds (name, score).  An
\* update is successful when it is answered 200 and none of its store calls
\* failed.
UpdateThenRead ==
    \A p \in Procs :
        (GetAnswered(p) /\ saw[p].op = "put" /\ saw[p].ok
            /\ ~Atoi(saw[p].req.score).err) =>
        /\ resp[p].gameData.Score = Atoi(saw[p].req.score).val
        /\ resp[p].gameData.GameCards = CardsOf(saw[p].req.gameCards)
        /\ resp[p].gameData.HasDefuseCard = saw[p].req.hasDefuseCard
        /\ HasEntry(resp[p].leaderboard, req[p].userName, Atoi(saw[p].req.score).val)

\* C2 happens: a read after an update with score 2, two cards and the flag set.
UpdateThenReadWitness ==
    \E p \in Procs :
        /\ GetAnswered(p) /\ saw[p].op = "put" /\ saw[p].ok
        /\ saw[p].req.score = <<"2">>
        /\ Len(resp[p].gameData.GameCards) = 2
        /\ resp[p].gameData.HasDefuseCard
        /\ Len(resp[p].leaderboard) = 2

\* C3: a read that follows a successful reset of the same user returns score
\* 0, no cards, the flag false and no active card, and its leaderboard does
\* not hold the user.
ResetThenRead ==
    \A p \in Procs :
        (GetAnswered(p) /\ saw[p].op = "reset" /\ saw[p].ok) =>
        /\ resp[p].gameData = ZeroGameData
        /\ ~InSnapshot(resp[p].leaderboard, req[p].userName)

\* C3 happens: a read after a reset, with another user on the leaderboard.
ResetThenReadWitness ==
    \E p \in Procs :
        /\ GetAnswered(p) /\ saw[p].op = "reset" /\ saw[p].ok
        /\ Len(resp[p].leaderboard) = 1

\* C4: while and after a second GET of a user whose record the previous GET
\* created, the record and the leaderboard entry are those the first GET left:
\* the deck is the same, the score is 0, and the entry is (name, 0) when the
\* first GET's store calls all succeeded.
InitIdempotent ==
    \A p \in Procs :
        (req[p].op = "get" /\ saw[p].op = "get" /\ saw[p].done) =>
        /\ hash[req[p].userName] = saw[p].hash
        /\ lb[req[p].userName] = saw[p].member
        /\ Atoi(hash[req[p].userName].score).val = 0
        /\ saw[p].ok => lb[req[p].userName] = Member(0)

\* C4 happens: the second GET is answered.
InitIdempotentWitness ==
    \E p \in Procs :
        /\ GetAnswered(p) /\ saw[p].op = "get" /\ saw[p].ok
        /\ Len(resp[p].gameData.GameCards) = DeckLen

\* A snapshot lists its entries by descending score.
Descending(s) ==
    \A i, j \in 1..Len(s) : i < j => s[i].userScore >= s[j].userScore

\* C5: the snapshot of the leaderboard lists exactly the current members,
\* each once and with its score, by descending score; so does every
\* snapshot a handler has put in an answer.
SnapshotDescending ==
    /\ LET s == getLatestLeaderboard(lb)
       IN  /\ Descending(s)
           /\ Len(s) = Cardinality({n \in Names : lb[n].in})
           /\ \A n \in Names : lb[n].in <=> HasEntry(s, n, lb[n].score)
    /\ \A p \in Procs : resp[p].status = 200 => Descending(resp[p].leaderboard)

\* C5 happens: an answer with three entries, not all of one score.
SnapshotDescendingWitness ==
    \E p \in Procs :
        /\ resp[p].status = 200
        /\ Len(resp[p].leaderboard) = 3
        /\ resp[p].leaderboard[1].userScore > resp[p].leaderboard[3].userScore

\* The increments that are under way: the frame is received, the entry of
\* the tally not yet written.
Pending(n) ==
    Cardinality({c \in Conns : wpc[c] \in {"lock", "load", "store"}
                               /\ wloc[c].message = n})

\* C6: no increment of the tally is lost: for every name the tally and the
\* increments under way add up to the frames received with that name on all
\* connections; when no message is being processed the tally is that number.
TallyCountsFrames ==
    \A n \in Names : leaderboardMap[n] + Pending(n) = Received(n)

\* C6 happens: two connections have sent frames with the same name, all
\* processed.
TallyCountsFramesWitness ==
    /\ \A c \in Conns : wpc[c] = "read"
    /\ frames[1]["alice"] = 2
    /\ frames[2]["alice"] = 1
    /\ leaderboardMap["alice"] = 3

\* C7: a reset that the handler has accepted comes to its end and returns.
ResetReturns ==
    \A p \in Procs : (pc[p] = "r_hmset") ~> (pc[p] = "done")

\* C8: a request of which a store call failed is answered 500.
StoreFailureAnswered500 ==
    \A p \in Procs : (Answered(p) /\ loc[p].failed) => resp[p].status = 500

\* C9: a reset without a user name is answered 400 in the step that accepts
\* it, which changes neither a hash record nor the leaderboard, and never
\* comes to a store call or to the send on the broadcast channel.
EmptyReset(r) == r.op = "reset" /\ r.decodes /\ r.userName = ""

EmptyResetRejected ==
    /\ [](\A p \in Procs :
            EmptyReset(req[p]) =>
                pc[p] = "done" /\ resp[p].status = 400 /\ ~loc[p].wrote)
    /\ [][\A p \in Procs :
            (pc[p] = "idle" /\ EmptyReset(req'[p])) =>
                (hash' = hash /\ lb' = lb /\ pc'[p] = "done")]_vars

\* C9 happens: the reset is refused while the store holds a user.
EmptyResetRejectedWitness ==
    \E p \in Procs :
        /\ EmptyReset(req[p]) /\ pc[p] = "done" /\ resp[p].status = 400
        /\ hash["alice"].exists /\ lb["alice"].in

\* C10: a GET with the empty user name writes nothing and returns the
\* zero-valued state.
EmptyNameReadsZero ==
    \A p \in Procs :
        (GetAnswered(p) /\ req[p].userName = "") =>
            ~loc[p].wrote /\ resp[p].gameData = ZeroGameData

\* C11: an update that supplies only some of the four members is answered 200
\* and leaves every field it did not supply at the value stored before.
PartialUpdateKeeps ==
    \A p \in Procs :
        (req[p].op = "put" /\ req[p].decodes /\ req[p].has # AllMembers
            /\ pc[p] = "done" /\ ~loc[p].failed) =>
        /\ resp[p].status = 200
        /\ saw[p].done =>
              \A f \in AllMembers \ req[p].has :
                  hash[req[p].userName][f] = saw[p].hash[f]

\* The frame in hand on connection c is counted in the tally.
Tallied(c) == leaderboardMap[wloc[c].message] >= wloc[c].count + 1

\* C12: per frame the tally is incremented before the leaderboard is read,
\* and the snapshot is written after the read and only then.  A failed read
\* leaves the tally incremented, writes nothing, keeps the connection open
\* and takes the loop back to the next read.
MessageOrder ==
    /\ [](\A c \in Conns : wpc[c] \in {"lb", "emit"} => Tallied(c))
    /\ [][\A c \in Conns :
            /\ wout'[c].written > wout[c].written =>
                  /\ wpc[c] = "emit" /\ wpc'[c] = "read"
                  /\ wout'[c].written = wout[c].written + 1
                  /\ wout'[c].leaderboard = wloc[c].leaderboard
            /\ wpc'[c] = "emit" => wpc[c] \in {"lb", "emit"}
            /\ (wpc[c] = "lb" /\ wpc'[c] # "lb") =>
                  /\ wpc'[c] \in {"emit", "read"}
                  /\ wout'[c].written = wout[c].written
                  /\ leaderboardMap' = leaderboardMap]_vars

\* C12 happens: the read of the leaderboard has failed for a frame, the tally
\* holds the frame, nothing was written and the connection awaits a frame.
MessageOrderWitness ==
    \E c \in Conns :
        /\ wpc[c] = "read" /\ wout[c].outcome = "readfailed"
        /\ wout[c].written = 0
        /\ frames[c]["alice"] = 1 /\ leaderboardMap["alice"] = 1

\* C13: a connection on which serializing or writing the snapshot has failed
\* is closed, and processes no further frame.
WriteFailureCloses ==
    \A c \in Conns : wout[c].outcome = "writefailed" => wpc[c] = "closed"

\* The handler is at its write of the hash record; at its write of the
\* leaderboard.
AtStateWrite(p) == pc[p] \in {"g_hmset", "u_hmset", "r_hmset"}
AtBoardWrite(p) == pc[p] \in {"g_zadd", "u_zadd", "r_zrem"}

\* C14: when the HMSet of an initialization, an update or a reset fails, the
\* step changes no hash record and not the leaderboard and answers 500, and
\* the handler returns: a handler comes to its ZAdd or ZRem only after its
\* HMSet has succeeded.
FailedWriteChangesNothing ==
    /\ [](\A p \in Procs : AtBoardWrite(p) => loc[p].wrote /\ ~loc[p].failed)
    /\ [][\A p \in Procs :
            (AtStateWrite(p) /\ loc'[p].failed) =>
                /\ hash' = hash /\ lb' = lb
                /\ pc'[p] = "done" /\ resp'[p].status = 500]_vars

\* C14 happens: the HMSet of an update has failed while the user has a
\* record and a leaderboard entry.
FailedWriteChangesNothingWitness ==
    \E p \in Procs :
        /\ pc[p] = "done" /\ req[p].op = "put" /\ req[p].userName = "alice"
        /\ loc[p].failed /\ ~loc[p].wrote /\ resp[p].status = 500
        /\ hash["alice"].exists /\ lb["alice"].in

\* Two requests in flight are initializations of the same user.
BothSeed(p, q) ==
    /\ p # q
    /\ req[p].op = "get" /\ req[q].op = "get"
    /\ req[p].userName = req[q].userName

\* C15: of the GET requests in flight for one new user only one writes the
\* seeded record, and the record a GET has written is the stored one as long
\* as that GET is in flight.
SeededOnce ==
    \A p, q \in Procs :
        BothSeed(p, q) =>
            /\ ~(loc[p].wrote /\ loc[q].wrote)
            /\ loc[p].wrote => last[req[p].userName].by = p

\* Every call has come to its end (a reset ends parked at its send).
Completed == \A p \in Procs : pc[p] \in {"idle", "done", "r_send"}

\* The record h is the one the request r writes.
WrittenBy(h, r) ==
    \/ r.op = "put" /\ h = UpdatedHash(r, Atoi(r.score).val)
    \/ r.op = "reset" /\ h = ClearedHash
    \/ r.op = "get" /\ \E randomCards \in GenerateRandomCards : h = InitialHash(randomCards)

\* C20: once the concurrent updates and resets of a user have completed, the
\* four fields of its record are those of one call, the one that wrote last.
OneCallWrote ==
    Completed =>
        \A n \in Names : hash[n].exists => WrittenBy(hash[n], last[n].req)

\* C20 happens: an update and a reset of alice have overlapped (the reset
\* removed the entry between the update's ZAdd and its read of the
\* leaderboard), and the update wrote the record last.
OneCallWroteWitness ==
    /\ Completed
    /\ req[1].op = "put" /\ resp[1].status = 200 /\ ~loc[1].failed
    /\ resp[1].leaderboard = <<>>
    /\ req[2].op = "reset" /\ loc[2].wrote /\ pc[2] = "r_send"
    /\ last["alice"].by = 1 /\ hash["alice"].hasDefuseCard = "1"

\* Connection c is inside updateLeaderboard, past mu.Lock().
Incrementing(c) == wpc[c] \in {"load", "store", "unlock"}

\* C16: the mutex is held only by a connection that is inside the increment,
\* never by one that is at a store call or at a read or write of its
\* connection; so when no connection is inside the increment the mutex is
\* free for a connection that waits for it, whatever the others are doing.
LockOnlyForIncrement ==
    /\ \A c \in Conns : mu = c => Incrementing(c)
    /\ (\A c \in Conns : ~Incrementing(c)) => mu = 0

\* C16 happens: connection 1 is at its read of the leaderboard while
\* connection 2 holds the mutex and increments.
LockOnlyForIncrementWitness ==
    /\ wpc[1] = "lb"
    /\ wpc[2] = "store" /\ mu = 2

\* Connection c fails in this step: it closes, or a read of the leaderboard
\* or a write on it fails.
FailsNow(c) ==
    \/ wpc[c] # "closed" /\ wpc'[c] = "closed"
    \/ wout'[c] # wout[c] /\ wout'[c].outcome \in {"readfailed", "writefailed"}

\* C17: a step in which a connection fails or closes changes nothing of any
\* other connection and leaves the tally and the mutex alone, and a
\* connection is closed only by its own step at ReadMessage; every frame
\* read on a connection is tallied and its processing comes to its end,
\* whatever happens on the other connections.
FailuresConnectionScoped ==
    /\ [][\A c \in Conns :
            /\ FailsNow(c) =>
                  /\ \A d \in Conns \ {c} :
                        wpc'[d] = wpc[d] /\ wloc'[d] = wloc[d] /\ wout'[d] = wout[d]
                  /\ mu' = mu /\ leaderboardMap' = leaderboardMap
            /\ (wpc[c] # "closed" /\ wpc'[c] = "closed") => wpc[c] = "read"]_vars
    /\ \A c \in Conns : (wpc[c] = "lock") ~> (wpc[c] = "lb")
    /\ \A c \in Conns : (wpc[c] = "lb") ~> (wpc[c] = "read")

\* C17 happens: connection 1 has had a failed write and is closed, and the
\* snapshot for a frame of connection 2 is about to be written.
FailuresConnectionScopedWitness ==
    /\ wpc[1] = "closed" /\ wout[1].outcome = "writefailed"
    /\ wpc[2] = "emit" /\ frames[2]["alice"] = 1

\* C18: the score of every stored record and of every leaderboard entry is a
\* non-negative integer.
ScoresNonNegative ==
    \A n \in Names :
        /\ hash[n].exists => ~Atoi(hash[n].score).err /\ Atoi(hash[n].score).val >= 0
        /\ lb[n].in => lb[n].score >= 0

\* C19: a step of the realtime handler changes no hash record and not the
\* leaderboard; the snapshot it reads is the one the store gives for the
\* leaderboard of that moment, and the snapshot it writes is the one it read.
RealtimeLeavesStore ==
    /\ [][wsVars' # wsVars => hash' = hash /\ lb' = lb]_vars
    /\ [][\A c \in Conns :
            /\ (wpc[c] = "lb" /\ wpc'[c] = "emit") =>
                  wloc'[c].leaderboard = getLatestLeaderboard(lb)
            /\ wout'[c].written > wout[c].written =>
                  wout'[c].leaderboard = wloc[c].leaderboard]_vars

\* C19 happens: a frame with bob's name is tallied and answered with the
\* snapshot of the store, which holds alice.
RealtimeLeavesStoreWitness ==
    \E c \in Conns :
        /\ wout[c].outcome = "written"
        /\ wout[c].leaderboard = <<[userName |-> "alice", userScore |-> 2]>>
        /\ leaderboardMap["bob"] = 1 /\ leaderboardMap["alice"] = 0
        /\ hash["alice"].exists /\ ~hash["bob"].exists
====
